---- MODULE Spec2Model ----
(***************************************************************************)
(* State-machine model of the HeySalad firmware sketches:                  *)
(*   - BLE_Food_Recognition.py      (HeySaladController, the BLE command   *)
(*                                   and telemetry dispatcher)             *)
(*   - Food_Recognition_Standalone.py (HeySaladApp, button-driven capture) *)
(*   - Http_Server.py               (CameraWebServer, WebSocket commands)  *)
(* The three programs are independent; each has its own specification      *)
(* (SpecBle, SpecApp, SpecWeb) over its own variables.                     *)
(*                                                                         *)
(* Text is modelled as a sequence of one-character strings, so that        *)
(* decode / strip / split / float / string equality are computed character *)
(* by character as the interpreter does.  A decimal number is the pair     *)
(* <<mantissa, fractional digits>>: "9.8" is <<98, 1>>.                    *)
(***************************************************************************)
EXTENDS Integers, Sequences, FiniteSets, TLC

(***************************************************************************)
(* Bounds of the model                                                     *)
(***************************************************************************)
\* largest number of comma-separated fields in one telemetry message
MaxFields == 4
\* largest number of messages pending in the BLE UART between two polls
MaxPending == 2
\* largest number of WebSocket frames sent by clients and not yet received
MaxWsPending == 2

(***************************************************************************)
(* Text helpers                                                            *)
(***************************************************************************)
RECURSIVE Flatten(_)
Flatten(ss) == IF ss = <<>> THEN <<>> ELSE Head(ss) \o Flatten(Tail(ss))

RECURSIVE Join(_)
\* the fields joined by the motion-data delimiter
Join(fs) == IF Len(fs) = 0 THEN <<>>
            ELSE IF Len(fs) = 1 THEN fs[1]
            ELSE fs[1] \o <<",">> \o Join(Tail(fs))

Contains(s, c) == \E i \in 1..Len(s) : s[i] = c

\* a byte that is not valid UTF-8 on its own
BadByte == "\\xff"

\* bytes.decode('utf-8'): raises on an invalid byte, else the same characters
decode(bytes) ==
    IF Contains(bytes, BadByte) THEN [ok |-> FALSE, text |-> <<>>]
    ELSE [ok |-> TRUE, text |-> bytes]

IsSpace(c) == c \in {" ", "\n", "\r", "\t"}

RECURSIVE LStrip(_)
LStrip(s) == IF s # <<>> /\ IsSpace(Head(s)) THEN LStrip(Tail(s)) ELSE s

RECURSIVE RStrip(_)
RStrip(s) == IF s # <<>> /\ IsSpace(s[Len(s)])
             THEN RStrip(SubSeq(s, 1, Len(s) - 1)) ELSE s

\* str.strip()
strip(s) == RStrip(LStrip(s))

RECURSIVE SplitFrom(_, _, _)
\* str.split(d): cur is the field being collected
SplitFrom(s, d, cur) ==
    IF s = <<>> THEN <<cur>>
    ELSE IF Head(s) = d THEN <<cur>> \o SplitFrom(Tail(s), d, <<>>)
    ELSE SplitFrom(Tail(s), d, Append(cur, Head(s)))

split(s, d) == SplitFrom(s, d, <<>>)

DigitVal(c) ==
    CASE c = "0" -> 0 [] c = "1" -> 1 [] c = "2" -> 2 [] c = "3" -> 3
      [] c = "4" -> 4 [] c = "5" -> 5 [] c = "6" -> 6 [] c = "7" -> 7
      [] c = "8" -> 8 [] c = "9" -> 9 [] OTHER -> -1

IsDigit(c) == DigitVal(c) >= 0

RECURSIVE DigitsValue(_, _)
DigitsValue(s, acc) ==
    IF s = <<>> THEN acc ELSE DigitsValue(Tail(s), 10 * acc + DigitVal(Head(s)))

\* index of the first "." of s, or 0
DotIndex(s) ==
    IF Contains(s, ".")
    THEN CHOOSE i \in 1..Len(s) : s[i] = "." /\ \A j \in 1..(i - 1) : s[j] # "."
    ELSE 0

\* float(s) for plain decimal text: surrounding whitespace is ignored, one
\* optional sign, digits with at most one ".", at least one digit.
\* ok = FALSE stands for ValueError.
float(s) ==
    LET t    == strip(s)
        neg  == t # <<>> /\ Head(t) = "-"
        sgn  == t # <<>> /\ Head(t) \in {"-", "+"}
        u    == IF sgn THEN Tail(t) ELSE t
        dot  == DotIndex(u)
        ip   == IF dot = 0 THEN u ELSE SubSeq(u, 1, dot - 1)
        fp   == IF dot = 0 THEN <<>> ELSE SubSeq(u, dot + 1, Len(u))
        ds   == ip \o fp
        good == /\ ds # <<>>
                /\ \A i \in 1..Len(ds) : IsDigit(ds[i])
    IN  IF good
        THEN [ok |-> TRUE,
              val |-> <<(IF neg THEN -1 ELSE 1) * DigitsValue(ds, 0), Len(fp)>>]
        ELSE [ok |-> FALSE, val |-> <<>>]

(***************************************************************************)
(* BLE_Food_Recognition.py : HeySaladController                            *)
(***************************************************************************)
MOTION_DATA_DELIMITER == ","

GESTURE_CAPTURE == <<"G","E","S","T","U","R","E","_","C","A","P","T","U","R","E">>
GESTURE_RECIPE  == <<"G","E","S","T","U","R","E","_","R","E","C","I","P","E">>
START_CAMERA    == <<"S","T","A","R","T","_","C","A","M","E","R","A">>
STOP_CAMERA     == <<"S","T","O","P","_","C","A","M","E","R","A">>

VARIABLES
    ble_state,      \* "ok": _ble_radio and _uart_service set; "init_failed":
                    \* both None; "unavailable": the attributes were never set
    ble_camera,     \* TRUE iff self._camera is a camera object (not None)
    camera_mode,    \* "initial", "enabled" (after enable()), "disabled"
    uart_msgs,      \* messages written by the peer and not yet read; the UART
                    \* holds their bytes back to back
    ble_out         \* what the last cycle of run() did (its log lines)

bleVars == <<ble_state, ble_camera, camera_mode, uart_msgs, ble_out>>

\* nothing read, nothing logged.  raw: the bytes read from the UART; rx: they
\* decoded ("Received BLE message"); motion, sample: the line logged by
\* _process_motion_data; cmd: the branch of the command chain taken; effects:
\* the camera calls made; caught: "BLE message processing error" was logged;
\* escaped: an exception left _process_ble_messages (run() catches it)
NoOut == [raw |-> <<>>, rx |-> FALSE, motion |-> "none", sample |-> <<>>, cmd |-> "none",
          effects |-> <<>>, caught |-> FALSE, escaped |-> FALSE]

\* a variant that converts every field of the message, not the first three
process_motion_data_all_fields(data_str) ==
    LET motion_values == split(data_str, MOTION_DATA_DELIMITER)
        f(i) == float(motion_values[i])
    IN  IF Len(motion_values) >= 3
        THEN IF \A i \in 1..Len(motion_values) : f(i).ok
             THEN [motion |-> "sample", sample |-> <<f(1).val, f(2).val, f(3).val>>]
             ELSE [motion |-> "error", sample |-> <<>>]
        ELSE [motion |-> "none", sample |-> <<>>]

\* a variant that logs the fields converted before the one that failed
process_motion_data_partial(data_str) ==
    LET motion_values == split(data_str, MOTION_DATA_DELIMITER)
        f(i) == float(motion_values[i])
    IN  IF Len(motion_values) >= 3
        THEN IF f(1).ok /\ f(2).ok /\ f(3).ok
             THEN [motion |-> "sample", sample |-> <<f(1).val, f(2).val, f(3).val>>]
             ELSE IF f(1).ok THEN [motion |-> "sample", sample |-> <<f(1).val>>]
             ELSE [motion |-> "error", sample |-> <<>>]
        ELSE [motion |-> "none", sample |-> <<>>]

\* _process_motion_data: "sample" is the "Motion Data" line with x, y, z;
\* "error" is the "Motion data processing error" line; "none" logs nothing.
process_motion_data(data_str) ==
    LET motion_values == split(data_str, MOTION_DATA_DELIMITER)
        f(i) == float(motion_values[i])
    IN  IF Len(motion_values) >= 3
        THEN IF f(1).ok /\ f(2).ok /\ f(3).ok
             THEN [motion |-> "sample", sample |-> <<f(1).val, f(2).val, f(3).val>>]
             ELSE [motion |-> "error", sample |-> <<>>]
        ELSE [motion |-> "none", sample |-> <<>>]

IsPrefix(p, s) == Len(p) <= Len(s) /\ SubSeq(s, 1, Len(p)) = p

\* a variant that matches a command at the start of the message
command_of_prefix(message) ==
    CASE IsPrefix(GESTURE_CAPTURE, message) -> "GESTURE_CAPTURE"
      [] IsPrefix(GESTURE_RECIPE, message)  -> "GESTURE_RECIPE"
      [] IsPrefix(START_CAMERA, message)    -> "START_CAMERA"
      [] IsPrefix(STOP_CAMERA, message)     -> "STOP_CAMERA"
      [] OTHER                              -> "none"

\* the if/elif chain of string comparisons in _process_ble_messages
command_of(message) ==
    CASE message = GESTURE_CAPTURE -> "GESTURE_CAPTURE"
      [] message = GESTURE_RECIPE  -> "GESTURE_RECIPE"
      [] message = START_CAMERA    -> "START_CAMERA"
      [] message = STOP_CAMERA     -> "STOP_CAMERA"
      [] OTHER                     -> "none"

\* _start_camera / _stop_camera: the camera call made, if any
start_camera(cam) == IF cam THEN <<"enable">> ELSE <<>>
stop_camera(cam)  == IF cam THEN <<"disable">> ELSE <<>>

\* a variant that stops the camera on every text that is not a command
command_effects_default_stop(cmd, cam) ==
    CASE cmd = "START_CAMERA" -> start_camera(cam)
      [] cmd = "STOP_CAMERA"  -> stop_camera(cam)
      [] cmd = "none"         -> stop_camera(cam)
      [] OTHER                -> <<>>

command_effects(cmd, cam) ==
    CASE cmd = "START_CAMERA" -> start_camera(cam)
      [] cmd = "STOP_CAMERA"  -> stop_camera(cam)
      [] OTHER                -> <<>>

\* the camera after the calls of one cycle
ApplyEffects(mode, effects) ==
    IF effects = <<>> THEN mode
    ELSE IF effects[Len(effects)] = "enable" THEN "enabled" ELSE "disabled"

\* a variant without the except clause: the error leaves the call
ble_error_escapes(bytes) == [NoOut EXCEPT !.raw = bytes, !.escaped = TRUE]

\* the except clause of _process_ble_messages: the error is logged and the
\* call returns
ble_error_handler(bytes) == [NoOut EXCEPT !.raw = bytes, !.caught = TRUE]

\* _process_ble_messages on the pending bytes: the outcome of the call
process_ble_messages(st, cam, bytes) ==
    IF st = "unavailable"
    THEN \* self._ble_radio was never assigned: AttributeError before the try
         [NoOut EXCEPT !.escaped = TRUE]
    ELSE IF st = "init_failed" THEN NoOut
    ELSE IF Len(bytes) = 0 THEN NoOut
    ELSE LET d == decode(bytes) IN
         IF ~d.ok
         THEN ble_error_handler(bytes)
         ELSE LET message == strip(d.text)
                  m   == IF Contains(message, MOTION_DATA_DELIMITER)
                         THEN process_motion_data(message)
                         ELSE [motion |-> "none", sample |-> <<>>]
                  cmd == command_of(message)
              IN  [raw |-> bytes, rx |-> TRUE, motion |-> m.motion, sample |-> m.sample,
                   cmd |-> cmd, effects |-> command_effects(cmd, cam),
                   caught |-> FALSE, escaped |-> FALSE]

(***************************************************************************)
(* What the peer (the motion sensor board) may send                        *)
(***************************************************************************)
\* telemetry fields with what their text denotes: num = it is a decimal
\* number, val = that number
FieldPool ==
    { [txt |-> <<"0", ".", "1">>,           num |-> TRUE,  val |-> <<1, 1>>],
      [txt |-> <<" ", "-", "9", ".", "8">>, num |-> TRUE,  val |-> <<-98, 1>>],
      [txt |-> <<"x">>,                     num |-> FALSE, val |-> <<>>],
      [txt |-> <<>>,                        num |-> FALSE, val |-> <<>>] }

FieldTuples == UNION { [1..n -> FieldPool] : n \in 1..MaxFields }

TextOf(ft) == Join([i \in 1..Len(ft) |-> ft[i].txt])

TelemetryMsgs == { TextOf(ft) : ft \in FieldTuples } \ { <<>> }

CommandTexts == {GESTURE_CAPTURE, GESTURE_RECIPE, START_CAMERA, STOP_CAMERA}

\* commands, near-misses of commands and undecodable bytes
OtherMsgs ==
    CommandTexts \cup
    { START_CAMERA \o <<"\n">>,
      <<" ">> \o STOP_CAMERA,
      START_CAMERA \o <<"!">>,
      <<"s","t","a","r","t","_","c","a","m","e","r","a">>,
      <<" ">>,
      <<BadByte>>,
      <<"0", ".", "1", ",">> \o <<BadByte>> }

Messages == TelemetryMsgs \cup OtherMsgs

\* messages that may arrive while another is still unread
BurstMsgs == CommandTexts \cup { <<"0", ".", "1", ",", "0", ".", "1", ",", "0", ".", "1">> }

InitBle ==
    /\ ble_state \in {"ok", "init_failed", "unavailable"}
    /\ ble_camera \in BOOLEAN
    /\ camera_mode = "initial"
    /\ uart_msgs = <<>>
    /\ ble_out = NoOut

\* the peer writes one message to the UART characteristic.  A message
\* follows either a poll that found the UART empty or, in a burst, another
\* message that no poll has read yet.
BleSend(m) ==
    /\ ble_state = "ok"
    /\ ble_out = NoOut
    /\ Len(uart_msgs) < MaxPending
    /\ uart_msgs # <<>> => (m \in BurstMsgs /\ \A i \in 1..Len(uart_msgs) : uart_msgs[i] \in BurstMsgs)
    /\ uart_msgs' = Append(uart_msgs, m)
    /\ UNCHANGED <<ble_state, ble_camera, camera_mode, ble_out>>

\* one iteration of HeySaladController.run
BleRunCycle ==
    LET out == process_ble_messages(ble_state, ble_camera, Flatten(uart_msgs)) IN
    /\ ble_out' = out
    /\ camera_mode' = ApplyEffects(camera_mode, out.effects)
    /\ uart_msgs' = IF ble_state = "ok" THEN <<>> ELSE uart_msgs
    /\ UNCHANGED <<ble_state, ble_camera>>


(***************************************************************************)
(* Display group shared by Food_Recognition_Standalone.py and              *)
(* Http_Server.py (the two load_image methods are the same code)           *)
(***************************************************************************)
STANDARD_IMAGE == "HSK-STANDARD.bmp"
SPEEDY_IMAGE   == "HSK-SPEEDY.bmp"
SHOCKED_IMAGE  == "HSK-SHOCKED.bmp"

\* what open() / OnDiskBitmap do with an image file: "ok", "missing"
\* (OSError) or "corrupt" (another exception)
FileStatus == {"ok", "missing", "corrupt"}

\* the fallback colour of load_image
fallback_colour(image_path) ==
    IF image_path = STANDARD_IMAGE THEN "green"
    ELSE IF image_path = SPEEDY_IMAGE THEN "yellow"
    ELSE "red"

\* "while len(self.main_group) > 0: self.main_group.pop()"
RECURSIVE clear_group(_)
clear_group(group) ==
    IF Len(group) > 0 THEN clear_group(SubSeq(group, 1, Len(group) - 1))
    ELSE group

\* a variant of load_image without the loop that clears the group
load_image_appending(display, group, image_path, fs) ==
    IF ~display THEN group
    ELSE IF fs = "ok" THEN Append(group, image_path)
    ELSE IF fs = "missing" THEN Append(group, fallback_colour(image_path))
    ELSE group

\* load_image: the display group afterwards.  Without a display main_group
\* is None, len() raises and the outer except leaves everything as it was.
\* With one, the group is cleared and the bitmap appended, or its fallback
\* colour when open() raises OSError, or nothing when the bitmap cannot be
\* read.
load_image(display, group, image_path, fs) ==
    IF ~display THEN group
    ELSE IF fs = "ok" THEN Append(clear_group(group), image_path)
    ELSE IF fs = "missing" THEN Append(clear_group(group), fallback_colour(image_path))
    ELSE clear_group(group)

\* display_text: the group is cleared and a black background appended
display_text(display, group) ==
    IF ~display THEN group ELSE Append(clear_group(group), "black")

(***************************************************************************)
(* Food_Recognition_Standalone.py : HeySaladApp                            *)
(***************************************************************************)
STATE_IDLE            == 0
STATE_CAPTURING       == 1
STATE_PROCESSING      == 2
STATE_DISPLAY_RESULTS == 3
STATE_ERROR           == 4

\* Time is counted in ticks of 50 ms, the shortest delay of the program
\* (the debounce delay of check_button).
DEBOUNCE_SLEEP       == 1
LOOP_SLEEP           == 2
DISPLAY_UPDATE_SLEEP == 10
PROCESSING_SLEEP     == 40
ERROR_SLEEP          == 60
RESULTS_SLEEP        == 200
FATAL_SLEEP          == 100
\* ticks in one second, and the modulus of the garbage-collection test
\* int(time.monotonic()) % 10 == 0
SECOND               == 20
GC_MODULUS           == 10

\* the clock is kept modulo the period of the garbage-collection test, the
\* only thing that reads it
ClockPeriod == GC_MODULUS * SECOND

Foods == {"Apple", "Banana", "Avocado", "Broccoli"}

VARIABLES
    app_pc,              \* where run() is: "loop" (top of the while loop),
                         \* or the sleep inside process_food_image it is in;
                         \* "ended" when the script has run to its end
    app_current_state,   \* self.current_state
    app_error_message,   \* self.error_message ("None" before any error)
    nutritional_data,    \* self.nutritional_data ("None" or a food)
    app_display,         \* TRUE iff init_display succeeded
    app_main_group,      \* the tiles of self.main_group
    app_camera,          \* TRUE iff self.camera is a camera object
    app_button,          \* TRUE iff self.button is a pin object
    button_state,        \* self.button_state: last pin level seen (TRUE = up)
    app_now,             \* time.monotonic() in ticks, modulo ClockPeriod
    app_gc_ran,          \* gc.collect() ran in the last pass of the loop
    app_since_gc         \* ticks since gc.collect() last ran (since the start
                         \* of run() before it ran), counted up to SinceGcCap

appVars == <<app_pc, app_current_state, app_error_message, nutritional_data,
             app_display, app_main_group, app_camera, app_button, button_state,
             app_now, app_gc_ran, app_since_gc>>

After(now, ticks) == (now + ticks) % ClockPeriod

\* the time without gc.collect() is followed until it exceeds one period
SinceGcCap == ClockPeriod + DEBOUNCE_SLEEP

Later(since, ticks) == IF since + ticks > SinceGcCap THEN SinceGcCap ELSE since + ticks

\* time.sleep(ticks * 0.05)
AppSleep(ticks) ==
    /\ app_now' = After(app_now, ticks)
    /\ app_since_gc' = Later(app_since_gc, ticks)

\* the test of run(): int(time.monotonic()) % 10 == 0
gc_due(now) == (now \div SECOND) % GC_MODULUS = 0

\* a variant of capture_image that does not record the mode
capture_image_keeps_state(cam, st) == st

\* capture_image up to the camera test: the mode when the call sleeps (with
\* a camera) or returns None (without)
capture_image_state(cam, st) == IF cam THEN STATE_CAPTURING ELSE st

InitApp ==
    /\ app_pc = "loop"
    /\ app_current_state = STATE_IDLE
    /\ app_error_message = "None"
    /\ nutritional_data = "None"
    /\ app_display \in BOOLEAN
    /\ app_camera \in BOOLEAN
    /\ app_button \in BOOLEAN
    /\ button_state \in (IF app_button THEN BOOLEAN ELSE {TRUE})
    /\ \E fs \in FileStatus :
          app_main_group = load_image(app_display, <<>>, STANDARD_IMAGE, fs)
    /\ app_now = 0
    /\ app_gc_ran = FALSE
    /\ app_since_gc = 0

\* the rest of a pass of the while loop: the garbage-collection test and the
\* loop delay
AppLoopTail(now) ==
    /\ app_gc_ran' = gc_due(now)
    /\ app_now' = After(now, LOOP_SLEEP)
    /\ app_since_gc' = IF gc_due(now) THEN LOOP_SLEEP
                       ELSE Later(app_since_gc, LOOP_SLEEP)
    /\ app_pc' = "loop"

\* a variant of check_button that forgets the press: the level, not the
\* edge, starts a capture
AppPollPressLevel ==
    /\ app_pc = "loop"
    /\ app_current_state = STATE_IDLE
    /\ app_button
    /\ button_state = TRUE
    /\ button_state' = TRUE
    /\ AppSleep(DEBOUNCE_SLEEP)
    /\ app_pc' = "pressed"
    /\ UNCHANGED <<app_current_state, app_error_message, nutritional_data,
                   app_display, app_main_group, app_camera, app_button, app_gc_ran>>

\* run(): a pass in which check_button sees the press edge (pin low after
\* high) in mode Idle; the pass goes on in process_food_image
AppPollPress ==
    /\ app_pc = "loop"
    /\ app_current_state = STATE_IDLE
    /\ app_button
    /\ button_state = TRUE
    /\ button_state' = FALSE
    /\ AppSleep(DEBOUNCE_SLEEP)
    /\ app_pc' = "pressed"
    /\ UNCHANGED <<app_current_state, app_error_message, nutritional_data,
                   app_display, app_main_group, app_camera, app_button, app_gc_ran>>

\* run(): a pass without a press edge; pin is the level read by check_button
AppPollNoPress(pin) ==
    /\ app_pc = "loop"
    /\ ~(app_current_state = STATE_IDLE /\ app_button /\ ~pin /\ button_state)
    /\ button_state' =
          IF app_current_state = STATE_IDLE /\ app_button /\ pin /\ ~button_state
          THEN TRUE ELSE button_state
    /\ AppLoopTail(app_now)
    /\ UNCHANGED <<app_current_state, app_error_message, nutritional_data,
                   app_display, app_main_group, app_camera, app_button>>

\* a variant of the failed capture that keeps the standard image and reports
\* nothing
AppCaptureFailedSilently(fs) ==
    /\ app_error_message' = app_error_message
    /\ app_current_state' = STATE_ERROR
    /\ app_main_group' = load_image(app_display, app_main_group, STANDARD_IMAGE, fs)
    /\ AppLoopTail(app_now)

\* a variant of the failed capture that goes back to Idle with the shocked
\* face on the display
AppCaptureFailedToIdle(fs) ==
    /\ app_error_message' = "Failed to capture image"
    /\ app_current_state' = STATE_IDLE
    /\ app_main_group' = load_image(app_display, app_main_group, SHOCKED_IMAGE, fs)
    /\ AppLoopTail(app_now)

\* process_food_image, "if not frame": the failed capture
AppCaptureFailed(fs) ==
    /\ app_error_message' = "Failed to capture image"
    /\ app_current_state' = STATE_ERROR
    /\ app_main_group' = load_image(app_display, app_main_group, SHOCKED_IMAGE, fs)
    /\ AppLoopTail(app_now)

\* process_food_image calls capture_image
AppStartCapture(fs) ==
    /\ app_pc = "pressed"
    /\ IF app_camera
       THEN /\ app_current_state' = capture_image_state(app_camera, app_current_state)
            /\ app_main_group' = load_image(app_display, app_main_group, SPEEDY_IMAGE, fs)
            /\ AppSleep(DISPLAY_UPDATE_SLEEP)
            /\ app_pc' = "capturing"
            /\ UNCHANGED <<app_error_message, app_gc_ran>>
       ELSE AppCaptureFailed(fs)
    /\ UNCHANGED <<nutritional_data, app_display, app_camera, app_button, button_state>>

\* capture_image after its delay: camera.take(1) gives a frame, gives
\* nothing, or raises
AppTake(taken, fs) ==
    /\ app_pc = "capturing"
    /\ IF taken = "frame"
       THEN /\ app_main_group' = load_image(app_display, app_main_group, SPEEDY_IMAGE, fs)
            /\ AppSleep(PROCESSING_SLEEP)
            /\ app_pc' = "processing"
            /\ UNCHANGED <<app_current_state, app_error_message, app_gc_ran>>
       ELSE AppCaptureFailed(fs)
    /\ UNCHANGED <<nutritional_data, app_display, app_camera, app_button, button_state>>

\* process_food_image after the simulated analysis: the mock data is shown
AppShowResults(food) ==
    /\ app_pc = "processing"
    /\ nutritional_data' = food
    /\ app_current_state' = STATE_DISPLAY_RESULTS
    /\ app_main_group' = display_text(app_display, app_main_group)
    /\ AppSleep(RESULTS_SLEEP)
    /\ app_pc' = "results"
    /\ UNCHANGED <<app_error_message, app_display, app_camera, app_button,
                   button_state, app_gc_ran>>

\* process_food_image, "except Exception": an exception raised after the
\* capture (for example MemoryError while the mock data is built)
AppProcessingRaises(fs) ==
    /\ app_pc = "processing"
    /\ app_error_message' = "Error"
    /\ app_current_state' = STATE_ERROR
    /\ app_main_group' = load_image(app_display, app_main_group, SHOCKED_IMAGE, fs)
    /\ AppSleep(ERROR_SLEEP)
    /\ app_pc' = "error_shown"
    /\ UNCHANGED <<nutritional_data, app_display, app_camera, app_button,
                   button_state, app_gc_ran>>

\* process_food_image after the results were shown for ten seconds
AppResultsShown(fs) ==
    /\ app_pc = "results"
    /\ app_main_group' = load_image(app_display, app_main_group, SHOCKED_IMAGE, fs)
    /\ AppSleep(ERROR_SLEEP)
    /\ app_pc' = "result_shocked"
    /\ UNCHANGED <<app_current_state, app_error_message, nutritional_data,
                   app_display, app_camera, app_button, button_state, app_gc_ran>>

\* a variant of the end of process_food_image that leaves the shocked face
\* on the display
AppBackToIdleShocked(fs) ==
    /\ app_pc \in {"result_shocked", "error_shown"}
    /\ app_main_group' = load_image(app_display, app_main_group, SHOCKED_IMAGE, fs)
    /\ app_current_state' = STATE_IDLE
    /\ AppLoopTail(app_now)
    /\ UNCHANGED <<app_error_message, nutritional_data, app_display, app_camera,
                   app_button, button_state>>

\* a variant of the end of process_food_image that takes the button as
\* released again
AppBackToIdleRearmed(fs) ==
    /\ app_pc \in {"result_shocked", "error_shown"}
    /\ app_main_group' = load_image(app_display, app_main_group, STANDARD_IMAGE, fs)
    /\ app_current_state' = STATE_IDLE
    /\ button_state' = TRUE
    /\ AppLoopTail(app_now)
    /\ UNCHANGED <<app_error_message, nutritional_data, app_display, app_camera,
                   app_button>>

\* the end of process_food_image after a three-second shocked face: the
\* standard image, mode Idle, and the rest of the pass of run()
AppBackToIdle(fs) ==
    /\ app_pc \in {"result_shocked", "error_shown"}
    /\ app_main_group' = load_image(app_display, app_main_group, STANDARD_IMAGE, fs)
    /\ app_current_state' = STATE_IDLE
    /\ AppLoopTail(app_now)
    /\ UNCHANGED <<app_error_message, nutritional_data, app_display, app_camera,
                   app_button, button_state>>

\* an exception leaves run() (one raised by the except clause of the loop
\* itself, such as MemoryError while the message is formatted): the except
\* clause of the script prints it, sleeps five seconds, and the script ends
AppFatalError ==
    /\ app_pc = "loop"
    /\ AppSleep(FATAL_SLEEP)
    /\ app_pc' = "ended"
    /\ UNCHANGED <<app_current_state, app_error_message, nutritional_data,
                   app_display, app_main_group, app_camera, app_button,
                   button_state, app_gc_ran>>

(***************************************************************************)
(* Http_Server.py : CameraWebServer                                        *)
(***************************************************************************)
HTTP_STATE_IDLE      == 0
HTTP_STATE_STREAMING == 1
HTTP_STATE_ERROR     == 2

Sockets == {"ws1", "ws2"}

\* a WebSocket text frame as json.loads sees it: kind "object" (a JSON
\* object, with or without the key "command"), "invalid" (not JSON:
\* JSONDecodeError) or "number" (JSON, but not a container)
WsCommand(c) == [kind |-> "object", has_command |-> TRUE, command |-> c]

WsMessages ==
    { WsCommand("start_stream"), WsCommand("stop_stream"), WsCommand("frobnicate"),
      [kind |-> "object",  has_command |-> FALSE, command |-> ""],
      [kind |-> "invalid", has_command |-> FALSE, command |-> ""],
      [kind |-> "number",  has_command |-> FALSE, command |-> ""] }

\* the JSON responses of process_websocket_messages
NoResponse == [type |-> "none", command |-> "", success |-> FALSE,
               streaming |-> FALSE, message |-> <<>>]
CommandResponse(c, streaming) ==
    [type |-> "command_response", command |-> c, success |-> TRUE,
     streaming |-> streaming, message |-> <<>>]
ErrorResponse(c) ==
    [type |-> "error", command |-> "", success |-> FALSE, streaming |-> FALSE,
     message |-> <<"Unknown command: ", c>>]

\* the message handed to broadcast_to_websockets: a camera frame
FrameMessage ==
    [type |-> "frame", command |-> "", success |-> FALSE, streaming |-> FALSE,
     message |-> <<>>]

\* the body of the /info response, as far as it depends on the program
NoInfo == [type |-> "none", streaming |-> FALSE]

\* a variant of info_handler that reports the mode instead of the flag
info_handler_by_mode(streaming, state) ==
    [type |-> "info", streaming |-> (state = HTTP_STATE_STREAMING)]

\* info_handler: "streaming": self.streaming_enabled
info_handler(streaming, state) == [type |-> "info", streaming |-> streaming]

VARIABLES
    web_pc,              \* where the program is: in __init__ ("init_wifi",
                         \* "server_splash", "error_shown") or past it ("ready")
    web_current_state,   \* self.current_state
    web_error_message,   \* self.error_message
    streaming_enabled,   \* self.streaming_enabled
    web_server,          \* TRUE iff the HTTP server was started
    web_display,         \* TRUE iff init_display succeeded
    web_main_group,      \* the tiles of self.main_group
    active_websockets,   \* self.active_websockets
    ws_inbox,            \* per socket: frames sent by the client, not yet received
    ws_closed,           \* sockets whose client has gone: send_message raises
    ws_response,         \* per socket: the response sent to it by the last
                         \* call of process_websocket_messages
    ws_caught,           \* per socket: the except clause that logged an error
                         \* for it in the last call ("none", "json",
                         \* "processing", "receive" or "send")
    web_info             \* the body of the response to GET /info, when that
                         \* was the last thing the server did

webVars == <<web_pc, web_current_state, web_error_message, streaming_enabled,
             web_server, web_display, web_main_group, active_websockets,
             ws_inbox, ws_closed, ws_response, ws_caught, web_info>>

\* the fields set by __init__ before init_wifi runs
InitWeb ==
    /\ web_pc = "init_wifi"
    /\ web_current_state = HTTP_STATE_IDLE
    /\ web_error_message = "None"
    /\ streaming_enabled = FALSE
    /\ web_server = FALSE
    /\ web_display \in BOOLEAN
    /\ web_main_group = <<>>
    /\ active_websockets = {}
    /\ ws_inbox = [w \in Sockets |-> <<>>]
    /\ ws_closed = {}
    /\ ws_response = [w \in Sockets |-> NoResponse]
    /\ ws_caught = [w \in Sockets |-> "none"]
    /\ web_info = NoInfo

\* init_server, after self.server.start(): the mode it sets
server_started_state(st) == HTTP_STATE_STREAMING

\* show_error up to its three-second delay
WebShowErrorBegin(message, fs) ==
    /\ web_current_state' = HTTP_STATE_ERROR
    /\ web_error_message' = message
    /\ web_main_group' = load_image(web_display, web_main_group, SHOCKED_IMAGE, fs)
    /\ web_pc' = "error_shown"

\* init_wifi: no network of WIFI_NETWORKS connects; show_error is called
WebWifiFails(fs) ==
    /\ web_pc = "init_wifi"
    /\ WebShowErrorBegin("WiFi connection failed", fs)
    /\ UNCHANGED <<streaming_enabled, web_server, web_display, active_websockets,
                   ws_inbox, ws_closed, ws_response, ws_caught,
                   web_info>>

\* init_wifi connects and init_server starts the server, up to the
\* one-second delay of the start-up splash
WebServerStarts(fs) ==
    /\ web_pc = "init_wifi"
    /\ web_server' = TRUE
    /\ web_current_state' = server_started_state(web_current_state)
    /\ web_main_group' = load_image(web_display, web_main_group, SPEEDY_IMAGE, fs)
    /\ web_pc' = "server_splash"
    /\ UNCHANGED <<web_error_message, streaming_enabled, web_display,
                   active_websockets, ws_inbox, ws_closed, ws_response, ws_caught,
                   web_info>>

\* init_wifi connects but init_server raises before the server is started;
\* its except clause calls show_error
WebServerFails(fs) ==
    /\ web_pc = "init_wifi"
    /\ WebShowErrorBegin("Server initialization failed", fs)
    /\ UNCHANGED <<streaming_enabled, web_server, web_display, active_websockets,
                   ws_inbox, ws_closed, ws_response, ws_caught,
                   web_info>>

\* the end of show_error (standard image, mode Idle) and of __init__
WebErrorShown(fs) ==
    /\ web_pc = "error_shown"
    /\ web_main_group' = load_image(web_display, web_main_group, STANDARD_IMAGE, fs)
    /\ web_current_state' = HTTP_STATE_IDLE
    /\ web_pc' = "ready"
    /\ UNCHANGED <<web_error_message, streaming_enabled, web_server, web_display,
                   active_websockets, ws_inbox, ws_closed, ws_response, ws_caught,
                   web_info>>

\* the end of init_server (standard image) and of __init__
WebSplashDone(fs) ==
    /\ web_pc = "server_splash"
    /\ web_main_group' = load_image(web_display, web_main_group, STANDARD_IMAGE, fs)
    /\ web_pc' = "ready"
    /\ UNCHANGED <<web_current_state, web_error_message, streaming_enabled,
                   web_server, web_display, active_websockets, ws_inbox,
                   ws_closed, ws_response, ws_caught,
                   web_info>>

\* ws_response, ws_caught and web_info describe the last thing the server
\* did and nothing reads them; the clients act when a call of
\* process_websocket_messages has left them clear, which loses no state of
\* the server
WsQuiet ==
    /\ ws_response = [w \in Sockets |-> NoResponse]
    /\ ws_caught = [w \in Sockets |-> "none"]
    /\ web_info = NoInfo

\* websocket_handler: a client opens /ws
WsConnect(w) ==
    /\ web_pc = "ready" /\ web_server
    /\ WsQuiet
    /\ w \notin active_websockets /\ w \notin ws_closed
    /\ active_websockets' = active_websockets \cup {w}
    /\ UNCHANGED <<web_pc, web_current_state, web_error_message, streaming_enabled,
                   web_server, web_display, web_main_group, ws_inbox, ws_closed,
                   ws_response, ws_caught,
                   web_info>>

PendingFrames == Len(ws_inbox["ws1"]) + Len(ws_inbox["ws2"])

\* a connected client sends a text frame
WsClientSend(w, msg) ==
    /\ w \in active_websockets /\ w \notin ws_closed
    /\ WsQuiet
    /\ PendingFrames < MaxWsPending
    /\ ws_inbox' = [ws_inbox EXCEPT ![w] = Append(@, msg)]
    /\ UNCHANGED <<web_pc, web_current_state, web_error_message, streaming_enabled,
                   web_server, web_display, web_main_group, active_websockets,
                   ws_closed, ws_response, ws_caught,
                   web_info>>

\* a connected client goes away
WsClientCloses(w) ==
    /\ w \in active_websockets /\ w \notin ws_closed
    /\ WsQuiet
    /\ ws_closed' = ws_closed \cup {w}
    /\ UNCHANGED <<web_pc, web_current_state, web_error_message, streaming_enabled,
                   web_server, web_display, web_main_group, active_websockets,
                   ws_inbox, ws_response, ws_caught,
                   web_info>>

\* the orders in which a set can be iterated
Orders(S) ==
    { o \in [1..Cardinality(S) -> S] : \A i, j \in 1..Cardinality(S) : o[i] = o[j] => i = j }

\* a variant of the loop body that drops a command it does not know
ws_handle_known_only(r, w, display, closed, failing, fs) ==
    IF w \in failing THEN [r EXCEPT !.caught[w] = "receive"]
    ELSE IF r.inbox[w] = <<>> THEN r
    ELSE
      LET msg  == Head(r.inbox[w])
          r1   == [r EXCEPT !.inbox[w] = Tail(@)]
          send(q, resp) == IF w \in closed
                           THEN [q EXCEPT !.caught[w] = "processing"]
                           ELSE [q EXCEPT !.response[w] = resp]
      IN  IF msg.kind = "invalid" THEN [r1 EXCEPT !.caught[w] = "json"]
          ELSE IF msg.kind # "object" THEN [r1 EXCEPT !.caught[w] = "processing"]
          ELSE IF ~msg.has_command THEN r1
          ELSE IF msg.command = "start_stream"
          THEN send([r1 EXCEPT !.streaming = TRUE,
                               !.group = load_image(display, @, SPEEDY_IMAGE, fs)],
                    CommandResponse("start_stream", TRUE))
          ELSE IF msg.command = "stop_stream"
          THEN send([r1 EXCEPT !.streaming = FALSE,
                               !.group = load_image(display, @, STANDARD_IMAGE, fs)],
                    CommandResponse("stop_stream", FALSE))
          ELSE r1

\* a variant of the loop body without the except clauses: the first error
\* ends the call, and the sockets after it are not polled
ws_handle_aborting(r, w, display, closed, failing, fs) ==
    IF \E v \in Sockets : r.caught[v] # "none" THEN r
    ELSE IF w \in failing THEN [r EXCEPT !.caught[w] = "receive"]
    ELSE IF r.inbox[w] = <<>> THEN r
    ELSE
      LET msg  == Head(r.inbox[w])
          r1   == [r EXCEPT !.inbox[w] = Tail(@)]
          send(q, resp) == IF w \in closed
                           THEN [q EXCEPT !.caught[w] = "processing"]
                           ELSE [q EXCEPT !.response[w] = resp]
      IN  IF msg.kind = "invalid" THEN [r1 EXCEPT !.caught[w] = "json"]
          ELSE IF msg.kind # "object" THEN [r1 EXCEPT !.caught[w] = "processing"]
          ELSE IF ~msg.has_command THEN r1
          ELSE IF msg.command = "start_stream"
          THEN send([r1 EXCEPT !.streaming = TRUE,
                               !.group = load_image(display, @, SPEEDY_IMAGE, fs)],
                    CommandResponse("start_stream", TRUE))
          ELSE IF msg.command = "stop_stream"
          THEN send([r1 EXCEPT !.streaming = FALSE,
                               !.group = load_image(display, @, STANDARD_IMAGE, fs)],
                    CommandResponse("stop_stream", FALSE))
          ELSE send(r1, ErrorResponse(msg.command))

\* the body of the for loop of process_websocket_messages for socket w.
\* r is [streaming, group, inbox, response, caught]; failing: the sockets
\* whose receive raises (outer except clause); closed: the sockets whose
\* send_message raises (inner except clause).  json.loads raises
\* JSONDecodeError on text that is not JSON, and '"command" in data' raises
\* TypeError on a number.
ws_handle(r, w, display, closed, failing, fs) ==
    IF w \in failing THEN [r EXCEPT !.caught[w] = "receive"]
    ELSE IF r.inbox[w] = <<>> THEN r
    ELSE
      LET msg  == Head(r.inbox[w])
          r1   == [r EXCEPT !.inbox[w] = Tail(@)]
          send(q, resp) == IF w \in closed
                           THEN [q EXCEPT !.caught[w] = "processing"]
                           ELSE [q EXCEPT !.response[w] = resp]
      IN  IF msg.kind = "invalid" THEN [r1 EXCEPT !.caught[w] = "json"]
          ELSE IF msg.kind # "object" THEN [r1 EXCEPT !.caught[w] = "processing"]
          ELSE IF ~msg.has_command THEN r1
          ELSE IF msg.command = "start_stream"
          THEN send([r1 EXCEPT !.streaming = TRUE,
                               !.group = load_image(display, @, SPEEDY_IMAGE, fs)],
                    CommandResponse("start_stream", TRUE))
          ELSE IF msg.command = "stop_stream"
          THEN send([r1 EXCEPT !.streaming = FALSE,
                               !.group = load_image(display, @, STANDARD_IMAGE, fs)],
                    CommandResponse("stop_stream", FALSE))
          ELSE send(r1, ErrorResponse(msg.command))

RECURSIVE ws_handle_all(_, _, _, _, _, _)
ws_handle_all(r, order, display, closed, failing, fs) ==
    IF order = <<>> THEN r
    ELSE ws_handle_all(ws_handle(r, Head(order), display, closed, failing, fs),
                       Tail(order), display, closed, failing, fs)

\* process_websocket_messages: every socket of the set is polled once, in
\* the iteration order of the set; failing is the set of sockets whose
\* receive raises in this call
WebProcessMessages(order, failing, fs) ==
    /\ web_pc = "ready"
    /\ LET r == ws_handle_all([streaming |-> streaming_enabled,
                               group |-> web_main_group,
                               inbox |-> ws_inbox,
                               response |-> [w \in Sockets |-> NoResponse],
                               caught |-> [w \in Sockets |-> "none"]],
                              order, web_display, ws_closed, failing, fs)
       IN  /\ streaming_enabled' = r.streaming
           /\ web_main_group' = r.group
           /\ ws_inbox' = r.inbox
           /\ ws_response' = r.response
           /\ ws_caught' = r.caught
           /\ web_info' = NoInfo
    /\ UNCHANGED <<web_pc, web_current_state, web_error_message, web_server,
                   web_display, active_websockets, ws_closed>>

\* the image files a call of process_websocket_messages can find: the call
\* opens one only when it takes a stream command and there is a display
FilesRead(failing) ==
    IF /\ web_display
       /\ \E w \in active_websockets \ failing :
             /\ ws_inbox[w] # <<>>
             /\ Head(ws_inbox[w]) \in {WsCommand("start_stream"), WsCommand("stop_stream")}
    THEN FileStatus
    ELSE {"ok"}

\* a variant of the loop body of broadcast_to_websockets that logs a failed
\* send and does not mark the socket
broadcast_send_keeping(r, w, closed) ==
    IF w \in closed THEN [r EXCEPT !.caught[w] = "send"]
    ELSE [r EXCEPT !.response[w] = FrameMessage]

\* the body of the for loop of broadcast_to_websockets for socket w.
\* r is [response, caught, closed_sockets]; closed: the sockets whose
\* send_message raises
broadcast_send(r, w, closed) ==
    IF w \in closed
    THEN [r EXCEPT !.caught[w] = "send", !.closed_sockets = @ \cup {w}]
    ELSE [r EXCEPT !.response[w] = FrameMessage]

RECURSIVE broadcast_all(_, _, _)
broadcast_all(r, order, closed) ==
    IF order = <<>> THEN r
    ELSE broadcast_all(broadcast_send(r, Head(order), closed), Tail(order), closed)

\* capture_and_broadcast_frame gets past its tests (streaming enabled, a
\* client connected, a frame taken) and broadcast_to_websockets sends the
\* frame to every socket of a copy of the set, in its iteration order; the
\* sockets whose send raised are taken out of the set afterwards
WebBroadcast(order) ==
    /\ web_pc = "ready"
    /\ streaming_enabled
    /\ active_websockets # {}
    /\ LET r == broadcast_all([response |-> [w \in Sockets |-> NoResponse],
                               caught |-> [w \in Sockets |-> "none"],
                               closed_sockets |-> {}],
                              order, ws_closed)
       IN  /\ ws_response' = r.response
           /\ ws_caught' = r.caught
           /\ active_websockets' = active_websockets \ r.closed_sockets
    /\ web_info' = NoInfo
    /\ UNCHANGED <<web_pc, web_current_state, web_error_message, streaming_enabled,
                   web_server, web_display, web_main_group, ws_inbox, ws_closed>>

\* GET /info is served
WebServeInfo ==
    /\ web_pc = "ready" /\ web_server
    /\ WsQuiet
    /\ web_info' = info_handler(streaming_enabled, web_current_state)
    /\ UNCHANGED <<web_pc, web_current_state, web_error_message, streaming_enabled,
                   web_server, web_display, web_main_group, active_websockets,
                   ws_inbox, ws_closed, ws_response, ws_caught>>

(***************************************************************************)
(* Specifications                                                          *)
(***************************************************************************)
vars == <<bleVars, appVars, webVars>>

\* the variables of a program that is not the one under study keep one
\* initial value
BleOff ==
    /\ ble_state = "init_failed" /\ ble_camera = FALSE /\ camera_mode = "initial"
    /\ uart_msgs = <<>> /\ ble_out = NoOut

AppOff ==
    /\ app_pc = "loop" /\ app_current_state = STATE_IDLE
    /\ app_error_message = "None" /\ nutritional_data = "None"
    /\ app_display = FALSE /\ app_main_group = <<>> /\ app_camera = FALSE
    /\ app_button = FALSE /\ button_state = TRUE /\ app_now = 0
    /\ app_gc_ran = FALSE
    /\ app_since_gc = 0

NextBleOnly ==
    \/ \E m \in Messages : BleSend(m) /\ UNCHANGED <<appVars, webVars>>
    \/ BleRunCycle /\ UNCHANGED <<appVars, webVars>>

NextAppOnly ==
    \/ AppPollPress /\ UNCHANGED <<bleVars, webVars>>
    \/ \E pin \in BOOLEAN : AppPollNoPress(pin) /\ UNCHANGED <<bleVars, webVars>>
    \/ \E fs \in FileStatus : AppStartCapture(fs) /\ UNCHANGED <<bleVars, webVars>>
    \/ \E taken \in {"frame", "no_frame", "raise"}, fs \in FileStatus :
          AppTake(taken, fs) /\ UNCHANGED <<bleVars, webVars>>
    \/ \E food \in Foods : AppShowResults(food) /\ UNCHANGED <<bleVars, webVars>>
    \/ \E fs \in FileStatus : AppProcessingRaises(fs) /\ UNCHANGED <<bleVars, webVars>>
    \/ \E fs \in FileStatus : AppResultsShown(fs) /\ UNCHANGED <<bleVars, webVars>>
    \/ \E fs \in FileStatus : AppBackToIdle(fs) /\ UNCHANGED <<bleVars, webVars>>
    \/ AppFatalError /\ UNCHANGED <<bleVars, webVars>>

WebOff ==
    /\ InitWeb /\ web_display = FALSE

NextWebOnly ==
    \/ \E fs \in FileStatus : WebWifiFails(fs) /\ UNCHANGED <<bleVars, appVars>>
    \/ \E fs \in FileStatus : WebServerStarts(fs) /\ UNCHANGED <<bleVars, appVars>>
    \/ \E fs \in FileStatus : WebServerFails(fs) /\ UNCHANGED <<bleVars, appVars>>
    \/ \E fs \in FileStatus : WebErrorShown(fs) /\ UNCHANGED <<bleVars, appVars>>
    \/ \E fs \in FileStatus : WebSplashDone(fs) /\ UNCHANGED <<bleVars, appVars>>
    \/ \E w \in Sockets : WsConnect(w) /\ UNCHANGED <<bleVars, appVars>>
    \/ \E w \in Sockets, msg \in WsMessages :
          WsClientSend(w, msg) /\ UNCHANGED <<bleVars, appVars>>
    \/ \E w \in Sockets : WsClientCloses(w) /\ UNCHANGED <<bleVars, appVars>>
    \/ \E order \in Orders(active_websockets), failing \in SUBSET active_websockets :
          \E fs \in FilesRead(failing) :
             WebProcessMessages(order, failing, fs) /\ UNCHANGED <<bleVars, appVars>>
    \/ \E order \in Orders(active_websockets) :
          WebBroadcast(order) /\ UNCHANGED <<bleVars, appVars>>
    \/ WebServeInfo /\ UNCHANGED <<bleVars, appVars>>

InitBleOnly == InitBle /\ AppOff /\ WebOff
InitAppOnly == InitApp /\ BleOff /\ WebOff
InitWebOnly == InitWeb /\ BleOff /\ AppOff

\* HeySaladController alone
SpecBle == InitBleOnly /\ [][NextBleOnly]_vars

\* HeySaladApp alone
SpecApp == InitAppOnly /\ [][NextAppOnly]_vars

\* CameraWebServer alone
SpecWeb == InitWebOnly /\ [][NextWebOnly]_vars

\* HeySaladApp with a main loop that keeps running
FairSpecApp == SpecApp /\ WF_vars(NextAppOnly)

(***************************************************************************)
(* Properties of HeySaladController (checked under SpecBle)                *)
(***************************************************************************)
\* the last cycle read the bytes of exactly this telemetry message
ReadTelemetry(ft) == ble_out.raw = TextOf(ft)

SameText(a, b) == Len(a) = Len(b) /\ \A i \in 1..Len(a) : a[i] = b[i]

IsCommandText(t) == \E c \in CommandTexts : SameText(t, c)

\* a step of run() that read bytes from the UART
ReadStep == uart_msgs # <<>> /\ uart_msgs' = <<>>

\* C2: a text with at least three comma-separated fields whose first three
\* are numeric yields one sample with x, y, z equal to the first three fields
\* in order, whatever follows the third field; nothing fails.
C2_SampleFromFirstThree ==
    \A ft \in FieldTuples :
        (Len(ft) >= 3 /\ ft[1].num /\ ft[2].num /\ ft[3].num /\ ReadTelemetry(ft))
        => /\ ble_out.motion = "sample"
           /\ ble_out.sample = <<ft[1].val, ft[2].val, ft[3].val>>
           /\ ~ble_out.caught /\ ~ble_out.escaped

\* "0.1, -9.8,0.1,x" was read and gave the sample (0.1, -9.8, 0.1)
C2_Witness ==
    /\ ble_out.raw = <<"0",".","1", ",", " ","-","9",".","8", ",", "0",".","1", ",", "x">>
    /\ ble_out.motion = "sample"
    /\ ble_out.sample = << <<1, 1>>, <<-98, 1>>, <<1, 1>> >>

\* C3: a text with at least three fields, one of the first three not numeric,
\* ends in the "Motion data processing error" outcome; no sample is logged and
\* the error does not leave _process_motion_data (the handler of
\* _process_ble_messages does not run).
C3_InvalidNumericNoSample ==
    \A ft \in FieldTuples :
        (Len(ft) >= 3 /\ ~(ft[1].num /\ ft[2].num /\ ft[3].num) /\ ReadTelemetry(ft))
        => /\ ble_out.motion = "error"
           /\ ble_out.sample = <<>>
           /\ ble_out.rx /\ ~ble_out.caught /\ ~ble_out.escaped

\* "0.1,x,0.1" was read: numeric, bad, numeric
C3_Witness ==
    /\ ble_out.raw = <<"0",".","1", ",", "x", ",", "0",".","1">>
    /\ ble_out.motion = "error"
    /\ ble_out.sample = <<>>

\* C4: a text with a comma and fewer than three fields gives an error outcome
\* and no sample.
C4_ShortTelemetryIsError ==
    \A ft \in FieldTuples :
        (Len(ft) = 2 /\ ReadTelemetry(ft))
        => (ble_out.motion = "error" \/ ble_out.caught) /\ ble_out.sample = <<>>

\* C5: a decoded, stripped message is dispatched as a command exactly when it
\* equals one of the four command texts; any other text takes no branch,
\* makes no camera call and leaves the camera as it was.
C5_ExactCommandMatch ==
    [][ (ReadStep /\ ble_out'.rx) =>
          LET t == strip(ble_out'.raw) IN
          /\ (ble_out'.cmd # "none") <=> IsCommandText(t)
          /\ SameText(t, GESTURE_CAPTURE) => ble_out'.cmd = "GESTURE_CAPTURE"
          /\ SameText(t, GESTURE_RECIPE) => ble_out'.cmd = "GESTURE_RECIPE"
          /\ SameText(t, START_CAMERA) => ble_out'.cmd = "START_CAMERA"
          /\ SameText(t, STOP_CAMERA) => ble_out'.cmd = "STOP_CAMERA"
          /\ ~IsCommandText(t) => (ble_out'.effects = <<>> /\ camera_mode' = camera_mode)
      ]_vars

\* "START_CAMERA!" was read with a camera present: no branch, no camera call
C5_Witness ==
    /\ ble_out.raw = START_CAMERA \o <<"!">>
    /\ ble_out.rx /\ ble_out.cmd = "none" /\ ble_out.effects = <<>>
    /\ ble_camera

\* C6: whatever bytes are read, no exception leaves _process_ble_messages, and
\* a message that failed (undecodable, or malformed telemetry) changes nothing
\* of the controller.
C6_ParsingNeverRaises ==
    [][ ReadStep =>
          /\ ~ble_out'.escaped
          /\ (ble_out'.caught \/ ble_out'.motion = "error")
               => (/\ ble_out'.effects = <<>>
                   /\ camera_mode' = camera_mode
                   /\ ble_camera' = ble_camera
                   /\ ble_state' = ble_state)
      ]_vars

\* bytes that are not UTF-8 were read and the error was logged
C6_Witness ==
    /\ Contains(ble_out.raw, BadByte)
    /\ ble_out.caught /\ ~ble_out.escaped /\ ~ble_out.rx

\* C8: GESTURE_CAPTURE is taken as the capture command and a capture sequence
\* is started.
C8_GestureCaptureStartsCapture ==
    (ble_out.rx /\ strip(ble_out.raw) = GESTURE_CAPTURE)
    => (ble_out.cmd = "GESTURE_CAPTURE" /\ ble_out.effects # <<>>)

(***************************************************************************)
(* Properties of HeySaladApp (SpecApp, FairSpecApp) and of CameraWebServer *)
(* (SpecWeb)                                                               *)
(***************************************************************************)
\* C1: after a peripheral fault has put the mode to Error, the mode returns
\* to Idle by itself (once the error display time is over), so that a later
\* button press can start a new capture.  A run in which the script ends on
\* a fatal error is not held against the property.
C1_ErrorReturnsToIdle ==
    (app_current_state = STATE_ERROR)
        ~> (app_current_state = STATE_IDLE \/ app_pc = "ended")

\* C7: when construction ends the mode is Idle, and the mode becomes
\* Streaming only when a start_stream command is processed (which can only
\* happen after construction and leaves streaming enabled).
C7_IdleUntilStartStream ==
    [][ /\ (web_pc # "ready" /\ web_pc' = "ready")
            => web_current_state' = HTTP_STATE_IDLE
        /\ (web_current_state # HTTP_STATE_STREAMING
              /\ web_current_state' = HTTP_STATE_STREAMING)
            => (web_pc = "ready" /\ streaming_enabled')
      ]_vars

\* C9 as stated: whenever a press edge is observed in mode Idle the mode
\* becomes Capturing, also without a camera.
C9_PressAlwaysCapturing ==
    [][ app_pc = "pressed" => app_current_state' = STATE_CAPTURING ]_vars

\* C9 (amended): a press is acted on only as a high-to-low edge seen in mode
\* Idle; with a camera the mode then becomes Capturing and the capture
\* sequence starts; without a camera the mode goes from Idle straight to
\* Error and the pass of the main loop ends.
C9_PressCapturingWithCamera ==
    [][ /\ (app_pc = "loop" /\ app_pc' = "pressed")
            => (app_current_state = STATE_IDLE /\ button_state /\ ~button_state')
        /\ app_pc = "pressed"
            => IF app_camera
               THEN app_current_state' = STATE_CAPTURING /\ app_pc' = "capturing"
               ELSE app_current_state' = STATE_ERROR /\ app_pc' = "loop"
      ]_vars

\* the press was seen, a camera is present and the capture sequence runs
C9_Witness ==
    /\ app_pc = "capturing" /\ app_current_state = STATE_CAPTURING
    /\ app_camera /\ ~button_state

\* C10: the mode never goes from Capturing to DisplayingResult without
\* being Processing in between.
C10_ProcessingBeforeResults ==
    [][ app_current_state = STATE_CAPTURING
          => app_current_state' # STATE_DISPLAY_RESULTS ]_vars

\* C11: when the camera call of a capture fails in mode Capturing (no frame,
\* or an exception), the mode becomes Error, error_message is set to a
\* non-empty text and the shocked image is put on the display (its red
\* fallback when the file is missing, nothing when the file is unreadable).
C11_FailedCaptureToError ==
    [][ (app_pc = "capturing" /\ app_pc' # "processing")
          => /\ app_current_state = STATE_CAPTURING
             /\ app_current_state' = STATE_ERROR
             /\ app_error_message' = "Failed to capture image"
             /\ app_error_message' \notin {"None", ""}
             /\ app_display =>
                  app_main_group' \in {<<SHOCKED_IMAGE>>, <<"red">>, <<>>}
             /\ ~app_display => app_main_group' = app_main_group
      ]_vars

\* a capture failed with a camera present: mode Error, the message set and
\* the shocked image on the display
C11_Witness ==
    /\ app_camera /\ app_display
    /\ app_pc = "loop" /\ app_current_state = STATE_ERROR
    /\ app_error_message = "Failed to capture image"
    /\ app_main_group = <<SHOCKED_IMAGE>>

\* what load_image can leave on a working display for each image
ShownAs(image_path) == {<<image_path>>, <<fallback_colour(image_path)>>, <<>>}

\* C12 as stated: while the mode is DisplayingResult or Error, the only
\* change of the display is the standard image put there by the step that
\* enters Idle; no other image is shown on the way out.
C12_OnlyStandardOnLeaving ==
    [][ (/\ app_current_state \in {STATE_DISPLAY_RESULTS, STATE_ERROR}
         /\ app_display
         /\ app_main_group' # app_main_group)
          => (/\ app_current_state' = STATE_IDLE
              /\ app_main_group' \in ShownAs(STANDARD_IMAGE))
      ]_vars

\* C12 (amended): the mode enters Idle only from DisplayingResult or Error,
\* and the step that enters Idle puts the standard image on the display;
\* leaving DisplayingResult, the shocked image is shown first, for three
\* seconds, while the mode is still DisplayingResult.
C12_StandardOnIdleEntry ==
    [][ /\ (app_current_state # STATE_IDLE /\ app_current_state' = STATE_IDLE)
            => /\ app_current_state \in {STATE_DISPLAY_RESULTS, STATE_ERROR}
               /\ app_display => app_main_group' \in ShownAs(STANDARD_IMAGE)
               /\ app_current_state = STATE_DISPLAY_RESULTS
                    => app_pc = "result_shocked"
        /\ (app_pc = "results")
            => /\ app_current_state = STATE_DISPLAY_RESULTS
               /\ app_current_state' = STATE_DISPLAY_RESULTS
               /\ app_pc' = "result_shocked"
               /\ app_display => app_main_group' \in ShownAs(SHOCKED_IMAGE)
      ]_vars

\* Idle was entered after a result was displayed, with the standard image
C12_Witness ==
    /\ app_pc = "loop" /\ app_current_state = STATE_IDLE
    /\ nutritional_data # "None"
    /\ app_display /\ app_main_group = <<STANDARD_IMAGE>>

(***************************************************************************)
(* Stream commands (SpecWeb, SpecBle)                                      *)
(***************************************************************************)
\* a step of process_websocket_messages that receives msg from socket w
WsProcessed(w, msg) ==
    /\ w \in active_websockets
    /\ ws_inbox[w] # <<>> /\ Head(ws_inbox[w]) = msg
    /\ ws_inbox'[w] = Tail(ws_inbox[w])

\* no socket other than w has a frame pending
WsOnly(w) == \A v \in Sockets \ {w} : ws_inbox[v] = <<>>

C14_StartWhileStreamingNoEffect ==
    [][ (ReadStep /\ camera_mode = "enabled" /\ ble_out'.cmd = "START_CAMERA")
          => ble_out'.effects = <<>>
      ]_vars

\* C15: a stop_stream command received while streaming moves the mode value
\* to Idle, disables streaming and shows the standard image.
C15_StopStreamMovesToIdle ==
    [][ \A w \in Sockets :
          (/\ WsProcessed(w, WsCommand("stop_stream")) /\ WsOnly(w)
           /\ streaming_enabled /\ web_current_state = HTTP_STATE_STREAMING)
          => /\ web_current_state' = HTTP_STATE_IDLE
             /\ ~streaming_enabled'
             /\ web_display => web_main_group' \in ShownAs(STANDARD_IMAGE)
      ]_vars

\* C16: a command with no row in the transition table is a no-op: STOP_CAMERA
\* read while the camera is not enabled makes no camera call, and
\* GESTURE_RECIPE makes none whatever the camera is doing.
C16_UnlistedPairsAreNoOps ==
    [][ ReadStep
          => /\ (ble_out'.cmd = "STOP_CAMERA" /\ camera_mode # "enabled")
                  => (ble_out'.effects = <<>> /\ camera_mode' = camera_mode)
             /\ ble_out'.cmd = "GESTURE_RECIPE"
                  => (ble_out'.effects = <<>> /\ camera_mode' = camera_mode)
      ]_vars

\* the command strings a client may send
WsCommandStrings == { m.command : m \in { x \in WsMessages : x.has_command } }

\* C17: when a JSON object whose command is neither start_stream nor
\* stop_stream is received from a socket, a response of type error with the
\* message "Unknown command: <command>" is sent to that socket (it arrives
\* when the client is still there), the command changes neither the
\* streaming flag nor the mode, and the socket stays in active_websockets.
C17_UnknownCommandErrorResponse ==
    [][ \A w \in Sockets : \A c \in WsCommandStrings \ {"start_stream", "stop_stream"} :
          WsProcessed(w, WsCommand(c))
          => /\ w \notin ws_closed
                  => /\ ws_response'[w].type = "error"
                     /\ ws_response'[w].message = <<"Unknown command: ", c>>
             /\ WsOnly(w) => /\ streaming_enabled' = streaming_enabled
                              /\ web_main_group' = web_main_group
             /\ web_current_state' = web_current_state
             /\ w \in active_websockets'
             /\ active_websockets' = active_websockets
      ]_vars

\* an open socket was answered "Unknown command: frobnicate"
C17_Witness ==
    \E w \in active_websockets \ ws_closed :
        /\ ws_response[w].type = "error"
        /\ ws_response[w].message = <<"Unknown command: ", "frobnicate">>

\* what process_websocket_messages does with frame msg of socket v when
\* nothing stops it: the response sent and the error logged
WsOutcome(v, msg) ==
    IF msg.kind = "invalid" THEN [response |-> NoResponse, caught |-> "json"]
    ELSE IF msg.kind # "object" THEN [response |-> NoResponse, caught |-> "processing"]
    ELSE IF ~msg.has_command THEN [response |-> NoResponse, caught |-> "none"]
    ELSE IF v \in ws_closed THEN [response |-> NoResponse, caught |-> "processing"]
    ELSE [response |-> IF msg.command = "start_stream"
                       THEN CommandResponse("start_stream", TRUE)
                       ELSE IF msg.command = "stop_stream"
                       THEN CommandResponse("stop_stream", FALSE)
                       ELSE ErrorResponse(msg.command),
          caught |-> "none"]

\* C18: when the handling of one socket's message raises in a call of
\* process_websocket_messages (text that is not JSON, a JSON value that is
\* not an object, a failing receive, a failing send of the response), the
\* error is logged and the call goes on: every other connected socket is
\* still polled in the same call, and the frame it has pending is taken and
\* handled as if nothing had failed.
C18_ErrorDoesNotAbortCycle ==
    [][ \A w \in active_websockets : \A v \in active_websockets \ {w} :
          (/\ ws_caught'[w] \in {"json", "processing", "receive"}
           /\ ws_inbox[v] # <<>>
           /\ ws_caught'[v] # "receive")
          => /\ ws_inbox'[v] = Tail(ws_inbox[v])
             /\ ws_response'[v] = WsOutcome(v, Head(ws_inbox[v])).response
             /\ ws_caught'[v] = WsOutcome(v, Head(ws_inbox[v])).caught
             /\ (Head(ws_inbox[v]) = WsCommand("start_stream") /\ ws_inbox'[w] = ws_inbox[w])
                  => streaming_enabled'
             /\ active_websockets' = active_websockets
             /\ web_pc' = web_pc
      ]_vars

\* in one call the text of one socket was not JSON and the other socket got
\* the answer to its command
C18_Witness ==
    \E w \in active_websockets : \E v \in active_websockets \ {w} :
        /\ ws_caught[w] = "json"
        /\ ws_response[v].type = "command_response"

\* C19: when several command messages are pending on the UART at the start
\* of a cycle, the cycle applies each of them, in arrival order: the camera
\* calls of the cycle are those of the first message followed by those of
\* the second, and so on.
C19_EachPendingMessageApplied ==
    [][ (/\ ReadStep
         /\ Len(uart_msgs) >= 2
         /\ \A i \in 1..Len(uart_msgs) : uart_msgs[i] \in CommandTexts)
          => ble_out'.effects =
               Flatten([i \in 1..Len(uart_msgs) |->
                       command_effects(command_of(uart_msgs[i]), ble_camera)])
      ]_vars

\* C20: gc.collect() runs in every ten-second window of running time,
\* whether or not button presses or captures occur: the time since it last
\* ran (or since run() started) never exceeds ten seconds.
C20_GcEveryTenSeconds ==
    app_since_gc <= GC_MODULUS * SECOND

\* C21: a fatal error that leaves run() is followed by a reset of the
\* device: the program is never left stopped, its script at its end, on a
\* device that was not reset.
C21_FatalErrorResets ==
    app_pc # "ended"

\* the program is inside process_food_image
InSequence ==
    app_pc \in {"pressed", "capturing", "processing", "results",
                "result_shocked", "error_shown"}

\* C22: a capture sequence starts only from the top of the main loop with
\* the mode Idle; once started it runs to its end (back at the top of the
\* loop) without the button being read, so a press made in mode Capturing,
\* DisplayingResult or Error starts nothing, and when the sequence ends the
\* button still counts as down: a press held over from the sequence is not
\* an edge.
C22_NoReentryMidCapture ==
    [][ /\ app_pc' = "pressed"
            => (app_pc = "loop" /\ app_current_state = STATE_IDLE)
        /\ app_current_state # STATE_IDLE => app_pc' # "pressed"
        /\ InSequence
            => /\ app_pc' \in {"capturing", "processing", "results",
                               "result_shocked", "error_shown", "loop"}
               /\ ~button_state /\ ~button_state'
      ]_vars

\* a sequence is over, the mode is Idle again and the button still counts
\* as down
C22_Witness ==
    /\ app_pc = "loop" /\ app_current_state = STATE_IDLE
    /\ nutritional_data # "None" /\ ~button_state

\* C23: a cycle that reads a telemetry text and logs its sample takes no
\* command branch and makes no camera call: the camera and the rest of the
\* controller are afterwards as they were before.
C23_TelemetryChangesNothing ==
    [][ (ReadStep /\ ble_out'.motion = "sample")
          => /\ Contains(ble_out'.raw, ",")
             /\ ble_out'.cmd = "none"
             /\ ble_out'.effects = <<>>
             /\ camera_mode' = camera_mode
             /\ ble_camera' = ble_camera /\ ble_state' = ble_state
      ]_vars

\* "0.1,0.1,0.1" was read while the camera was enabled: a sample, and the
\* camera is still enabled
C23_Witness ==
    /\ ble_out.raw = <<"0", ".", "1", ",", "0", ".", "1", ",", "0", ".", "1">>
    /\ ble_out.motion = "sample"
    /\ ble_out.sample = << <<1, 1>>, <<1, 1>>, <<1, 1>> >>
    /\ camera_mode = "enabled"

\* the sockets from which a start_stream or stop_stream is received in
\* this step
StreamCommandsTaken ==
    { w \in active_websockets :
        /\ ws_inbox[w] # <<>>
        /\ ws_inbox'[w] = Tail(ws_inbox[w])
        /\ Head(ws_inbox[w]) \in {WsCommand("start_stream"), WsCommand("stop_stream")} }

\* C24: the streaming field of the /info response is the value set by the
\* most recent start_stream or stop_stream received, false when there was
\* none: the flag is false until construction is over, a step changes it
\* only by receiving such a command and then to the value of a command it
\* received, /info reports the flag, and serving /info changes nothing of
\* the server.
C24_InfoReportsStreaming ==
    [][ /\ web_pc # "ready" => (~streaming_enabled /\ ~streaming_enabled')
        /\ StreamCommandsTaken = {} => streaming_enabled' = streaming_enabled
        /\ StreamCommandsTaken # {}
            => \E w \in StreamCommandsTaken :
                  streaming_enabled' = (Head(ws_inbox[w]).command = "start_stream")
        /\ web_info'.type = "info"
            => /\ web_info'.streaming = streaming_enabled
               /\ UNCHANGED <<web_pc, web_current_state, web_error_message,
                              streaming_enabled, web_server, web_display,
                              web_main_group, active_websockets, ws_inbox,
                              ws_closed>>
      ]_vars

\* /info was served after a start_stream and reports streaming true, while
\* a stop_stream of another client is still pending
C24_Witness ==
    /\ web_info = [type |-> "info", streaming |-> TRUE]
    /\ \E w \in active_websockets : ws_inbox[w] = <<WsCommand("stop_stream")>>

\* C25: without a usable BLE stack (the libraries are missing, or the
\* initialisation failed) a call of _process_ble_messages returns at once:
\* nothing is raised and no camera call is made.
C25_NoBleReturnsAtOnce ==
    ble_state \in {"unavailable", "init_failed"}
        => /\ ~ble_out.escaped /\ ~ble_out.caught /\ ~ble_out.rx
           /\ ble_out.effects = <<>>
           /\ camera_mode = "initial"

\* C26: check_button reports a press only when the pin is low and the level
\* it saw last was high, and then records the low level; the recorded level
\* goes back to high only in a poll that sees the pin high, which is a pass
\* of the main loop in mode Idle that starts nothing.  So a button held
\* down over any number of polls, or over a whole capture sequence, starts
\* one capture at most, and the next capture needs a poll that saw the
\* button released.
C26_PressOnlyOnEdge ==
    [][ /\ (app_pc = "loop" /\ app_pc' = "pressed")
            => (app_button /\ button_state /\ ~button_state')
        /\ (app_pc = "loop" /\ ~button_state) => app_pc' # "pressed"
        /\ (~button_state /\ button_state')
            => /\ app_pc = "loop" /\ app_pc' = "loop"
               /\ app_current_state = STATE_IDLE
               /\ app_current_state' = STATE_IDLE
        /\ ~app_button => (button_state' /\ app_pc' # "pressed")
      ]_vars

\* a second capture starts: after the first one the button was seen
\* released and is now pressed again
C26_Witness ==
    /\ app_pc = "pressed" /\ ~button_state
    /\ nutritional_data # "None"

\* C27: at the top of a pass of the main loop in mode Idle the display shows
\* what load_image makes of the standard image (the bitmap, its green
\* fallback when the file is missing, nothing when it cannot be read):
\* __init__ and run() load it before the first pass, and every path of
\* process_food_image that ends in Idle loads it last.
C27_IdleShowsStandard ==
    (app_pc = "loop" /\ app_current_state = STATE_IDLE /\ app_display)
        => app_main_group \in ShownAs(STANDARD_IMAGE)

\* back at the top of the loop in Idle after the exception path of
\* process_food_image, with the standard bitmap on the display
C27_Witness ==
    /\ app_pc = "loop" /\ app_current_state = STATE_IDLE /\ app_display
    /\ app_error_message = "Error"
    /\ app_main_group = <<STANDARD_IMAGE>>

\* C28: the display group never holds more than one tile, and in every
\* reachable state a load_image whose file is there or missing, and a
\* display_text, leave exactly one tile in it, whatever it held before.
C28_GroupHoldsOneTile ==
    /\ Len(app_main_group) <= 1
    /\ app_display =>
          /\ \A image_path \in {STANDARD_IMAGE, SPEEDY_IMAGE, SHOCKED_IMAGE},
                 fs \in {"ok", "missing"} :
                 Len(load_image(app_display, app_main_group, image_path, fs)) = 1
          /\ Len(display_text(app_display, app_main_group)) = 1

\* the red fallback of the shocked image has taken the place of the black
\* background of the results
C28_Witness ==
    /\ app_pc = "result_shocked" /\ app_display
    /\ app_main_group = <<"red">>

\* C29: a call of broadcast_to_websockets leaves for every socket that was
\* in active_websockets either the frame or a logged send error, a failure
\* on one socket notwithstanding; the sends that raise are those to the
\* sockets whose client has gone, and active_websockets afterwards is the
\* set before without exactly the sockets whose send raised.
C29_BroadcastPrunesFailedOnly ==
    [][ (\E w \in Sockets : ws_response'[w] = FrameMessage \/ ws_caught'[w] = "send")
        => /\ \A w \in active_websockets :
                 /\ (ws_response'[w] = FrameMessage) # (ws_caught'[w] = "send")
                 /\ (ws_caught'[w] = "send") <=> (w \in ws_closed)
                 /\ ws_response'[w] \in {FrameMessage, NoResponse}
                 /\ ws_caught'[w] \in {"send", "none"}
           /\ \A w \in Sockets \ active_websockets :
                 ws_response'[w] = NoResponse /\ ws_caught'[w] = "none"
           /\ active_websockets' =
                 {w \in active_websockets : ws_caught'[w] # "send"}
           /\ \A w \in active_websockets :
                 (w \in active_websockets') <=> (ws_response'[w] = FrameMessage)
      ]_vars

\* one socket got the frame and stays; the other, whose client had gone,
\* was taken out of the set
C29_Witness ==
    \E w \in Sockets, v \in Sockets :
        /\ ws_response[w] = FrameMessage /\ w \in active_websockets
        /\ ws_caught[v] = "send" /\ v \notin active_websockets

\* C30: once the server is constructed, the mode is Streaming exactly when
\* streaming_enabled is true, whatever start-up, start_stream, stop_stream
\* and error events came before.
C30_ModeAgreesWithFlag ==
    web_pc = "ready"
        => ((web_current_state = HTTP_STATE_STREAMING) <=> streaming_enabled)

====
